---- MODULE Spec2Model ----
(***************************************************************************)
(* GraphQL-over-HTTP protocol layer of strawberry: the synchronous         *)
(* orchestrator BaseHTTPView.run (strawberry/http/base_view.py) and the    *)
(* asynchronous orchestrator HTTPHandler.handle                            *)
(* (strawberry/asgi/handlers/http_handler.py), each processing the same    *)
(* request under the same configuration and the same collaborators.        *)
(* Spec runs the two side by side on one request; FairSpec adds that each  *)
(* runs to its end; ConcurrentSpec runs two calls of HTTPHandler.handle,   *)
(* on two requests, interleaved at their awaits; RoundTripSpec runs the    *)
(* test client's _build_body (tests/http/clients/base.py) and              *)
(* parse_query_params on the parameters it builds for a GET.               *)
(*                                                                         *)
(* Data representation.  A decoded JSON value is a flattened tree: a       *)
(* function from paths (sequences of keys; list indices are the keys "0",  *)
(* "1", ...) to scalar leaves (strings).  A scalar value is the tree whose *)
(* only path is the empty one.  Python's None is JSON null: the leaf       *)
(* "null".  An empty container is the leaf "{}".  A text (request body,    *)
(* form field, query parameter) is a string; JsonLoads decodes the texts   *)
(* of the model.  A content-type header is the sequence of its lexical     *)
(* tokens, so that "contains" and "starts with" differ.                    *)
(***************************************************************************)
EXTENDS Integers, Sequences, FiniteSets, TLC

\* Number of named file parts a multipart request may carry ("0", "1", ...).
MaxFileParts == 2

\* Status codes used by the handlers.
HTTP_200_OK == 200
HTTP_400_BAD_REQUEST == 400
HTTP_404_NOT_FOUND == 404
HTTP_405_METHOD_NOT_ALLOWED == 405
HTTP_415_UNSUPPORTED_MEDIA_TYPE == 415

-----------------------------------------------------------------------------
(* JSON values *)

Scalar(s) == (<<>> :> s)
None == Scalar("null")
EmptyObj == Scalar("{}")

IsPrefix(p, q) == Len(p) <= Len(q) /\ SubSeq(q, 1, Len(p)) = p

\* dict.get(key): the value under key, None when the key is absent.
Get(tree, key) ==
    LET below == {q \in DOMAIN tree : Len(q) >= 1 /\ q[1] = key}
    IN  IF below = {} THEN None
        ELSE [r \in {Tail(q) : q \in below} |-> tree[<<key>> \o r]]

\* "key in dict"
HasKey(tree, key) == \E q \in DOMAIN tree : Len(q) >= 1 /\ q[1] = key

\* A mapping (it has .get); scalars and arrays are not.
IsObject(tree) == <<>> \notin DOMAIN tree \/ tree = EmptyObj

\* dict[key] = value, value itself a tree.
Graft(tree, key, sub) ==
    LET kept == {q \in DOMAIN tree : q # <<>> /\ q[1] # key}
        added == {<<key>> \o r : r \in DOMAIN sub}
    IN  [q \in kept \cup added |->
            IF q \in added THEN sub[Tail(q)] ELSE tree[q]]

\* The union of two mappings, the second winning.
DictUnion(a, b) ==
    LET d == (DOMAIN a \cup DOMAIN b) \ {<<>>}
    IN  IF d = {} THEN EmptyObj
        ELSE [q \in d |-> IF q \in DOMAIN b THEN b[q] ELSE a[q]]

\* Outcome of a call: a value, or a raised exception (exc names its class;
\* an HTTPException carries status and reason).
Ok(v) == [exc |-> "", status |-> 0, reason |-> "", val |-> v]
Raise(e) == [exc |-> e, status |-> 0, reason |-> "", val |-> None]
HTTPException(status_code, why) ==
    [exc |-> "HTTPException", status |-> status_code, reason |-> why, val |-> None]

\* The query documents of the model.
Q_QUERY == "{ hello }"
Q_MUTATION == "mutation { m }"
Q_SUBSCRIPTION == "subscription { s }"
Q_UPLOAD == "mutation ($f: Upload!) { upload(file: $f) }"

\* Texts of the model.
T_BODY_QUERY == "{\"query\": \"{ hello }\"}"
T_BODY_FULL ==
    "{\"query\": \"mutation { m }\", \"variables\": {\"a\": 1}, \"operationName\": \"Op\"}"
T_BODY_NOQUERY == "{\"operationName\": \"Op\"}"
T_EMPTY == "{}"
T_LIST == "[1]"
T_MALFORMED == "{\"query\": "
T_VARS == "{\"a\": 1}"
T_VARS_AB == "{\"a\": 1, \"b\": \"x\"}"
T_VARS_FG == "{\"f\": null, \"g\": null}"
T_VARS_INPUT == "{\"input\": {\"a\": 1}}"
T_VARS_FILES == "{\"files\": [null, null]}"
T_OPS ==
    "{\"query\": \"mutation ($f: Upload!) { upload(file: $f) }\", \"variables\": {\"f\": null, \"g\": null}}"
T_MAP_0 == "{\"0\": [\"variables.f\"]}"
T_MAP_0_TWICE == "{\"0\": [\"variables.f\", \"variables.g\"]}"
T_MAP_01 == "{\"0\": [\"variables.f\"], \"1\": [\"variables.g\"]}"
T_MAP_FIELD == "{\"operations\": [\"variables.f\"]}"

\* json.loads on the texts of the model; any other text is not JSON.  A JSON
\* array decodes to a value that is not a mapping: the opaque scalar "[1]".
JsonLoads(text) ==
    CASE text = T_BODY_QUERY -> Ok(<<"query">> :> Q_QUERY)
      [] text = T_BODY_FULL ->
            Ok((<<"query">> :> Q_MUTATION)
               @@ (<<"variables", "a">> :> "1")
               @@ (<<"operationName">> :> "Op"))
      [] text = T_BODY_NOQUERY -> Ok(<<"operationName">> :> "Op")
      [] text = T_EMPTY -> Ok(EmptyObj)
      [] text = T_LIST -> Ok(Scalar("[1]"))
      [] text = T_VARS -> Ok(<<"a">> :> "1")
      [] text = T_VARS_AB -> Ok((<<"a">> :> "1") @@ (<<"b">> :> "x"))
      [] text = T_VARS_FG -> Ok((<<"f">> :> "null") @@ (<<"g">> :> "null"))
      [] text = T_VARS_INPUT -> Ok(<<"input", "a">> :> "1")
      [] text = T_VARS_FILES ->
            Ok((<<"files", "0">> :> "null") @@ (<<"files", "1">> :> "null"))
      [] text = T_OPS ->
            Ok((<<"query">> :> Q_UPLOAD)
               @@ (<<"variables", "f">> :> "null")
               @@ (<<"variables", "g">> :> "null"))
      [] text = T_MAP_0 -> Ok(<<"0", "0">> :> "variables.f")
      [] text = T_MAP_0_TWICE ->
            Ok((<<"0", "0">> :> "variables.f") @@ (<<"0", "1">> :> "variables.g"))
      [] text = T_MAP_01 ->
            Ok((<<"0", "0">> :> "variables.f") @@ (<<"1", "0">> :> "variables.g"))
      [] text = T_MAP_FIELD -> Ok(<<"operations", "0">> :> "variables.f")
      [] OTHER -> Raise("JSONDecodeError")

\* str.split(".") on the placeholder paths of the model.
SplitDots(path) ==
    CASE path = "variables.f" -> <<"variables", "f">>
      [] path = "variables.g" -> <<"variables", "g">>
      [] OTHER -> <<path>>

-----------------------------------------------------------------------------
(* Collaborators outside the two handlers: the multipart file resolver,   *)
(* the operation gate's starting set and the execution engine.            *)

\* Member order of the JSON objects of the model, and of list indices.
KeyOrder == <<"0", "1", "2", "3", "operations", "map">>
IndexOrder == <<"0", "1", "2", "3">>

\* files_map.items(): the keys of the map, in member order.
MapItems(files_map) == SelectSeq(KeyOrder, LAMBDA k : HasKey(files_map, k))

\* The list of paths declared for one key of the map.
PathsOf(files_map, k) ==
    LET lst == Get(files_map, k)
    IN  [i \in 1..Cardinality(DOMAIN lst) |-> lst[<<IndexOrder[i]>>]]

\* The value at path p is a mapping or a sequence (it can be indexed).
ContainerAt(tree, p) ==
    \/ \E q \in DOMAIN tree : IsPrefix(p, q) /\ q # p
    \/ p \in DOMAIN tree /\ tree[p] = "{}"

\* target_object[value_key] = file_object
SetLeaf(tree, p, v) ==
    LET kept == {q \in DOMAIN tree : ~IsPrefix(p, q) /\ ~IsPrefix(q, p)}
    IN  [q \in kept \cup {p} |-> IF q = p THEN v ELSE tree[q]]

RECURSIVE ReplacePaths(_, _, _)
ReplacePaths(operations, paths, file_object) ==
    IF paths = <<>> THEN Ok(operations)
    ELSE LET segs == SplitDots(Head(paths))
             parent == SubSeq(segs, 1, Len(segs) - 1)
         IN  IF ~ContainerAt(operations, parent) THEN Raise("KeyError")
             ELSE ReplacePaths(SetLeaf(operations, segs, file_object),
                               Tail(paths), file_object)

RECURSIVE ReplaceItems(_, _, _, _)
ReplaceItems(operations, keys, files_map, files) ==
    IF keys = <<>> THEN Ok(operations)
    ELSE LET k == Head(keys)
         IN  IF ~HasKey(files, k) THEN Raise("KeyError")
             ELSE LET r == ReplacePaths(operations, PathsOf(files_map, k), files[<<k>>])
                  IN  IF r.exc # "" THEN r
                      ELSE ReplaceItems(r.val, Tail(keys), files_map, files)

\* strawberry.file_uploads.utils.replace_placeholders_with_files
replace_placeholders_with_files(operations, files_map, files) ==
    ReplaceItems(operations, MapItems(files_map), files_map, files)

\* OperationType.from_http: the transport-legal kinds of a method.
from_http(method) ==
    CASE method = "GET" -> Ok({"QUERY"})
      [] method = "POST" -> Ok({"QUERY", "MUTATION"})
      [] OTHER -> Raise("ValueError")

\* The kind a query document declares.
OperationKind(document) ==
    CASE document = Q_QUERY -> "QUERY"
      [] document = Q_MUTATION -> "MUTATION"
      [] document = Q_UPLOAD -> "MUTATION"
      [] OTHER -> "SUBSCRIPTION"

ExecutionResult(d, e) == [data |-> d, errors |-> e]

\* schema.execute / schema.execute_sync.  engine is how the schema answers an
\* operation it accepts: with data, with GraphQL errors, or by raising.
schema_execute(query, allowed_operation_types, engine) ==
    IF query = None THEN Raise("MissingQueryError")
    ELSE IF OperationKind(query[<<>>]) \notin allowed_operation_types
    THEN [Raise("InvalidOperationTypeError") EXCEPT
              !.reason = OperationKind(query[<<>>])]
    ELSE CASE engine = "data" -> Ok(ExecutionResult("{\"ok\": true}", <<>>))
           [] engine = "errors" -> Ok(ExecutionResult("null", <<"boom">>))
           [] OTHER -> Raise("RuntimeError")

\* InvalidOperationTypeError.as_http_error_reason
as_http_error_reason(kind, method) ==
    (CASE kind = "QUERY" -> "queries"
       [] kind = "MUTATION" -> "mutations"
       [] OTHER -> "subscriptions") \o " are not allowed when using " \o method

\* strawberry.http.process_result: errors are listed only when there are any.
process_result(result) ==
    IF result.errors = <<>> THEN (<<"data">> :> result.data)
    ELSE (<<"data">> :> result.data) @@ (<<"errors">> :> result.errors[1])

\* encode_json: json.dumps of the response data.
encode_json(response_data) ==
    IF HasKey(response_data, "errors")
    THEN "{\"data\": " \o response_data[<<"data">>]
         \o ", \"errors\": [\"" \o response_data[<<"errors">>] \o "\"]}"
    ELSE "{\"data\": " \o response_data[<<"data">>] \o "}"

\* Mutant: the operation name is read under the wrong key.
GraphQLRequestData_WrongKey(data) ==
    [query |-> Get(data, "query"),
     variables |-> Get(data, "variables"),
     operation_name |-> Get(data, "operation_name")]

\* GraphQLRequestData(query=data.get("query"), variables=data.get("variables"),
\* operation_name=data.get("operationName"))
GraphQLRequestData(data) ==
    [query |-> Get(data, "query"),
     variables |-> Get(data, "variables"),
     operation_name |-> Get(data, "operationName")]

-----------------------------------------------------------------------------
(* Requests, configuration and collaborators' behaviour *)

VARIABLES
    request,  \* the inbound request, handed to both orchestrators
    cfg,      \* allow_queries_via_get, graphiql
    env,      \* what the collaborators do: engine answer, context builder
    view,     \* BaseHTTPView.run: position, locals, calls made, outcome
    asgi,     \* HTTPHandler.handle: position, locals, calls made, outcome
    peer,     \* a second request in HTTPHandler.handle at the same time: the
              \* request, what its context builder sets, and its handle call
    client    \* the test client HttpClient building the parameters of a
              \* request, and what parse_query_params makes of them

vars == <<request, cfg, env, view, asgi, peer, client>>

Contains(content_type, token) == \E i \in DOMAIN content_type : content_type[i] = token
StartsWith(content_type, token) == Len(content_type) >= 1 /\ content_type[1] = token

\* str.lower() on the method names of the model.
Lower(method) ==
    CASE method = "GET" -> "get"
      [] method = "POST" -> "post"
      [] method = "PUT" -> "put"
      [] OTHER -> method

Dict1(k, v) == (<<k>> :> v)

CT_NONE == <<>>
CT_JSON == <<"application/json", "; charset=utf-8">>
CT_TEXT == <<"text/plain">>
CT_FORM == <<"multipart/form-data", "; boundary=b">>

Methods == {"GET", "POST", "PUT", "get"}
ContentTypes == {CT_NONE, CT_JSON, CT_TEXT, CT_FORM}

P_QUERY == Dict1("query", Q_QUERY)
QueryParams ==
    { EmptyObj,
      P_QUERY,
      Dict1("query", Q_MUTATION),
      Dict1("query", Q_SUBSCRIPTION),
      P_QUERY @@ Dict1("variables", T_VARS),
      P_QUERY @@ Dict1("variables", T_MALFORMED),
      Dict1("operationName", "Op") }

Bodies == {T_BODY_QUERY, T_BODY_FULL, T_BODY_NOQUERY, T_LIST, T_MALFORMED}

F_GOOD == Dict1("operations", T_OPS) @@ Dict1("map", T_MAP_0)
Forms ==
    { Dict1("operations", T_OPS) @@ Dict1("map", m) :
          m \in {T_MAP_0, T_MAP_0_TWICE, T_MAP_01, T_MAP_FIELD, T_MALFORMED} }
    \cup { Dict1("operations", T_OPS),
           Dict1("map", T_MAP_0),
           Dict1("operations", T_MALFORMED),
           EmptyObj }

PartNames == {ToString(i) : i \in 0..(MaxFileParts - 1)}
FilesOf(names) ==
    IF names = {} THEN EmptyObj ELSE [q \in {<<n>> : n \in names} |-> "FILE_" \o q[1]]
FileSets == {FilesOf(names) : names \in SUBSET PartNames}

Req(m, ct, qp, body, form, files, accept) ==
    [method |-> m, content_type |-> ct, query_params |-> qp, data |-> body,
     form |-> form, files |-> files, accept |-> accept]

A_NONE == <<>>
A_HTML == <<"text/html", ",application/xhtml+xml">>
Accepts == {A_NONE, A_HTML}

\* The requests of the model: every method and content type with and without
\* a query string; every query string, JSON body and multipart form under the
\* methods and content types whose handling reads it.
Requests ==
    { Req(m, ct, qp, IF ct = CT_JSON THEN T_BODY_QUERY ELSE "",
          IF ct = CT_FORM THEN F_GOOD ELSE EmptyObj,
          IF ct = CT_FORM THEN FilesOf({"0"}) ELSE EmptyObj, a) :
          m \in Methods, ct \in ContentTypes, qp \in {EmptyObj, P_QUERY}, a \in Accepts }
    \cup
    { Req(m, ct, qp, IF ct = CT_JSON THEN T_BODY_FULL ELSE "", EmptyObj, EmptyObj, A_NONE) :
          m \in {"GET", "get", "POST"}, ct \in {CT_NONE, CT_JSON}, qp \in QueryParams }
    \cup
    { Req(m, CT_JSON, qp, b, EmptyObj, EmptyObj, A_NONE) :
          m \in {"GET", "POST"}, qp \in {EmptyObj, P_QUERY}, b \in Bodies }
    \cup
    { Req(m, CT_FORM, EmptyObj, "", f, fs, A_NONE) :
          m \in {"GET", "POST"}, f \in Forms, fs \in FileSets }

Configs == [allow_queries_via_get : BOOLEAN, graphiql : BOOLEAN]
\* ctx_status: the status the context builder puts on the sub-response (with
\* a set-cookie header), 0 when it leaves the sub-response alone.
Envs == [engine : {"data", "errors", "raise"}, ctx_status : {0, 418}]

-----------------------------------------------------------------------------
(* Outcomes and per-request records *)

Pending ==
    [kind |-> "pending", exc |-> "", status |-> 0, body |-> "",
     media_type |-> "", headers |-> <<>>]
\* A response object.
Response(content, status_code, media, hdrs) ==
    [kind |-> "response", exc |-> "", status |-> status_code, body |-> content,
     media_type |-> media, headers |-> hdrs]
\* An exception leaving the orchestrator (an HTTPException carries status and reason).
Raised(e) ==
    [kind |-> "raised", exc |-> e.exc, status |-> e.status, body |-> e.reason,
     media_type |-> "", headers |-> <<>>]

\* starlette responses: the content-length and content-type headers are set
\* by the constructor.
PlainTextResponse(content, status_code) ==
    Response(content, status_code, "text/plain", <<"content-length", "content-type">>)
HTMLResponse(content, status_code) ==
    Response(content, status_code, "text/html", <<"content-length", "content-type">>)

GRAPHIQL_HTML == "<html>GraphiQL</html>"

\* The arguments of the one call of the engine; called is FALSE before it.
NoExec ==
    [called |-> FALSE, query |-> None, variables |-> None,
     operation_name |-> None, allowed |-> {}]
ExecCall(request_data, allowed_operation_types) ==
    [called |-> TRUE, query |-> request_data.query,
     variables |-> request_data.variables,
     operation_name |-> request_data.operation_name,
     allowed |-> allowed_operation_types]

\* The response-shaped accumulator handed to get_context.
SubResponse == [status_code |-> 0, headers |-> <<>>]

\* get_context(request, response=sub_response): user code that may set a
\* status and a header on the sub-response.
context_builder(sub_response, ctx_status) ==
    IF ctx_status # 0
    THEN [status_code |-> ctx_status,
          headers |-> Append(sub_response.headers, "set-cookie")]
    ELSE sub_response

get_context(sub_response) == context_builder(sub_response, env.ctx_status)

NoResult == ExecutionResult("null", <<>>)

Start ==
    [pc |-> "start", sub_response |-> SubResponse,
     request_data |-> GraphQLRequestData(EmptyObj), result |-> NoResult,
     response |-> Pending, out |-> Pending, calls |-> <<>>, exec |-> NoExec]

-----------------------------------------------------------------------------
(* BaseHTTPView (strawberry/http/base_view.py) *)

\* Mutant: PUT is admitted as well.
is_request_allowed_AdmitsPut(req) == Lower(req.method) \in {"get", "post", "put"}

is_request_allowed(req) == Lower(req.method) \in {"get", "post"}

\* should_render_graphiql as the concrete views override it: console enabled,
\* GET without query parameters, Accept advertising text/html or */*.
view_should_render_graphiql(req) ==
    /\ cfg.graphiql
    /\ Lower(req.method) = "get"
    /\ req.query_params = EmptyObj
    /\ \E supported_header \in {"text/html", "*/*"} :
           Contains(req.accept, supported_header)

parse_json(data) ==
    LET r == JsonLoads(data)
    IN  IF r.exc = "JSONDecodeError"
        THEN HTTPException(HTTP_400_BAD_REQUEST, "Unable to parse request body as JSON")
        ELSE r

\* dict.get(key, default) on a mapping of texts.
FormGet(form, key, default) == IF HasKey(form, key) THEN form[<<key>>] ELSE default

\* Mutant: the operations are returned with their placeholders unresolved.
parse_form_NoResolution(req) ==
    LET operations == parse_json(FormGet(req.form, "operations", "{}"))
        files_map == parse_json(FormGet(req.form, "map", "{}"))
    IN  IF operations.exc # "" THEN operations
        ELSE IF files_map.exc # "" THEN files_map
        ELSE operations

parse_form(req) ==
    LET operations == parse_json(FormGet(req.form, "operations", "{}"))
        files_map == parse_json(FormGet(req.form, "map", "{}"))
    IN  IF operations.exc # "" THEN operations
        ELSE IF files_map.exc # "" THEN files_map
        ELSE LET r == replace_placeholders_with_files(
                          operations.val, files_map.val, req.files)
             IN  IF r.exc = "KeyError"
                 THEN HTTPException(HTTP_400_BAD_REQUEST, "File(s) missing in form data")
                 ELSE r

get_query_params(req) == req.query_params

\* parse_query_params returning the parameters as they came, `variables`
\* still the text.
parse_query_params_NoDecode(params) ==
    Ok(params)

parse_query_params(params) ==
    IF HasKey(params, "variables")
    THEN LET r == JsonLoads(params[<<"variables">>])
         IN  IF r.exc # "" THEN r ELSE Ok(Graft(params, "variables", r.val))
    ELSE Ok(params)

parse_http_body(req) ==
    LET content_type == req.content_type
        data ==
            IF Contains(content_type, "application/json") THEN parse_json(req.data)
            ELSE IF StartsWith(content_type, "multipart/form-data") THEN parse_form(req)
            ELSE IF Lower(req.method) = "get"
            THEN parse_query_params(get_query_params(req))
            ELSE HTTPException(HTTP_400_BAD_REQUEST, "Unsupported content type")
    IN  IF data.exc # "" THEN data
        ELSE IF ~IsObject(data.val) THEN Raise("AttributeError")
        ELSE Ok(GraphQLRequestData(data.val))

\* execute_operation, lines 70-76: the parse step and its except clauses.
execute_operation_parse(req) ==
    LET r == parse_http_body(req)
    IN  CASE r.exc = "JSONDecodeError" ->
                HTTPException(HTTP_400_BAD_REQUEST, "Unable to parse request body as JSON")
          [] r.exc = "KeyError" ->
                HTTPException(HTTP_400_BAD_REQUEST, "File(s) missing in form data")
          [] OTHER -> r

\* Mutant: QUERY is removed whatever the method is.
view_allowed_operation_types_AnyMethod(method, allow_queries_via_get) ==
    LET allowed_operation_types == from_http(method)
    IN  IF allowed_operation_types.exc # "" THEN allowed_operation_types
        ELSE IF ~allow_queries_via_get
        THEN Ok(allowed_operation_types.val \ {"QUERY"})
        ELSE allowed_operation_types

\* execute_operation, lines 81-86: the allowed operation types.
view_allowed_operation_types(method, allow_queries_via_get) ==
    LET allowed_operation_types == from_http(method)
    IN  IF allowed_operation_types.exc # "" THEN allowed_operation_types
        ELSE IF ~allow_queries_via_get /\ method = "GET"
        THEN Ok(allowed_operation_types.val \ {"QUERY"})
        ELSE allowed_operation_types

\* run, lines 179-184: the engine's typed errors become HTTPExceptions.
run_except(r, method) ==
    CASE r.exc = "InvalidOperationTypeError" ->
            HTTPException(HTTP_400_BAD_REQUEST, as_http_error_reason(r.reason, method))
      [] r.exc = "MissingQueryError" ->
            HTTPException(HTTP_400_BAD_REQUEST, "No GraphQL query found in the request")
      [] OTHER -> r

\* _create_response of the concrete views: the JSON body with status 200,
\* merged with the sub-response (its headers first; its status wins when set).
create_response(response_data, sub_response) ==
    Response(encode_json(response_data),
             IF sub_response.status_code # 0 THEN sub_response.status_code
             ELSE HTTP_200_OK,
             "application/json",
             sub_response.headers \o <<"content-length", "content-type">>)

\* render_graphiql of the concrete views.
render_graphiql == HTMLResponse(GRAPHIQL_HTML, HTTP_200_OK)

\* run, lines 171-177: admission, console short-circuit, sub-response.
ViewAdmit ==
    /\ view.pc = "start"
    /\ view' =
         IF ~is_request_allowed(request)
         THEN [view EXCEPT !.pc = "done",
                  !.out = Raised(HTTPException(HTTP_405_METHOD_NOT_ALLOWED,
                              "GraphQL only supports GET and POST requests."))]
         ELSE IF view_should_render_graphiql(request)
         THEN [view EXCEPT !.pc = "done", !.out = render_graphiql,
                  !.response = render_graphiql,
                  !.calls = Append(@, "render_graphiql")]
         ELSE [view EXCEPT !.pc = "parse", !.sub_response = SubResponse]
    /\ UNCHANGED <<request, cfg, env, asgi, peer, client>>

\* execute_operation, lines 70-76.
ViewParse ==
    /\ view.pc = "parse"
    /\ LET r == execute_operation_parse(request)
       IN  view' =
             IF r.exc # ""
             THEN [view EXCEPT !.pc = "done", !.out = Raised(r),
                      !.calls = Append(@, "parse")]
             ELSE [view EXCEPT !.pc = "get_context", !.request_data = r.val,
                      !.calls = Append(@, "parse")]
    /\ UNCHANGED <<request, cfg, env, asgi, peer, client>>

\* execute_operation, line 78.
ViewGetContext ==
    /\ view.pc = "get_context"
    /\ view' = [view EXCEPT !.pc = "get_root_value",
                   !.sub_response = get_context(@),
                   !.calls = Append(@, "get_context")]
    /\ UNCHANGED <<request, cfg, env, asgi, peer, client>>

\* execute_operation, line 79.
ViewGetRootValue ==
    /\ view.pc = "get_root_value"
    /\ view' = [view EXCEPT !.pc = "execute",
                   !.calls = Append(@, "get_root_value")]
    /\ UNCHANGED <<request, cfg, env, asgi, peer, client>>

\* execute_operation, lines 81-97, under run's except clauses (lines 179-184).
ViewExecute ==
    /\ view.pc = "execute"
    /\ LET allowed == view_allowed_operation_types(
                          request.method, cfg.allow_queries_via_get)
       IN  IF allowed.exc # ""
           THEN view' = [view EXCEPT !.pc = "done", !.out = Raised(allowed)]
           ELSE LET r == run_except(
                             schema_execute(view.request_data.query, allowed.val,
                                            env.engine),
                             request.method)
                    called == [view EXCEPT
                                  !.exec = ExecCall(view.request_data, allowed.val),
                                  !.calls = Append(@, "execute")]
                IN  view' =
                      IF r.exc # ""
                      THEN [called EXCEPT !.pc = "done", !.out = Raised(r)]
                      ELSE [called EXCEPT !.pc = "respond", !.result = r.val]
    /\ UNCHANGED <<request, cfg, env, asgi, peer, client>>

\* run, lines 186-190.
ViewRespond ==
    /\ view.pc = "respond"
    /\ view' = [view EXCEPT !.pc = "done",
                   !.calls = Append(@, "process_result"),
                   !.response = create_response(process_result(view.result),
                                                SubResponse),
                   !.out = create_response(process_result(view.result),
                                           view.sub_response)]
    /\ UNCHANGED <<request, cfg, env, asgi, peer, client>>

-----------------------------------------------------------------------------
(* HTTPHandler (strawberry/asgi/handlers/http_handler.py) *)

\* strawberry.http.parse_query_params: variables is a JSON-encoded string.
http_parse_query_params(params) ==
    IF HasKey(params, "variables")
    THEN LET r == JsonLoads(params[<<"variables">>])
         IN  IF r.exc # "" THEN r ELSE Ok(Graft(params, "variables", r.val))
    ELSE Ok(params)

\* strawberry.http.parse_request_data
parse_request_data(data) ==
    IF ~IsObject(data) THEN Raise("AttributeError")
    ELSE Ok(GraphQLRequestData(data))

should_render_graphiql(req) ==
    IF ~cfg.graphiql THEN FALSE
    ELSE \E supported_header \in {"text/html", "*/*"} :
            Contains(req.accept, supported_header)

get_graphiql_response == HTMLResponse(GRAPHIQL_HTML, HTTP_200_OK)

MalformedBody ==
    PlainTextResponse("Unable to parse request body as JSON", HTTP_400_BAD_REQUEST)

\* An early return of get_http_response: a response instead of data.
Return(resp) == [exc |-> "return", status |-> 0, reason |-> "", val |-> resp]

\* get_http_response, lines 108-128: the multipart branch.  The third
\* argument of the resolver is the whole form: its text fields and its files.
get_http_response_multipart(req) ==
    LET multipart_data == DictUnion(req.form, req.files)
        operations == JsonLoads(FormGet(multipart_data, "operations", "{}"))
        files_map == JsonLoads(FormGet(multipart_data, "map", "{}"))
    IN  IF operations.exc = "JSONDecodeError" \/ files_map.exc = "JSONDecodeError"
        THEN Return(MalformedBody)
        ELSE LET r == replace_placeholders_with_files(
                          operations.val, files_map.val, multipart_data)
             IN  IF r.exc = "KeyError"
                 THEN Return(PlainTextResponse("File(s) missing in form data",
                                               HTTP_400_BAD_REQUEST))
                 ELSE r

\* get_http_response, lines 82-138: the data of the request, or an early return.
get_http_response_data(req) ==
    LET method == req.method
    IN  IF method = "GET"
        THEN IF req.query_params # EmptyObj
             THEN LET r == http_parse_query_params(req.query_params)
                  IN  IF r.exc = "JSONDecodeError" THEN Return(MalformedBody) ELSE r
             ELSE IF should_render_graphiql(req) THEN Return(get_graphiql_response)
             ELSE Return(HTMLResponse("", HTTP_404_NOT_FOUND))
        ELSE IF method = "POST"
        THEN LET content_type == req.content_type
             IN  IF Contains(content_type, "application/json")
                 THEN LET r == JsonLoads(req.data)
                      IN  IF r.exc = "JSONDecodeError" THEN Return(MalformedBody) ELSE r
                 ELSE IF StartsWith(content_type, "multipart/form-data")
                 THEN get_http_response_multipart(req)
                 ELSE Return(PlainTextResponse("Unsupported Media Type",
                                               HTTP_415_UNSUPPORTED_MEDIA_TYPE))
        ELSE Return(PlainTextResponse("Method Not Allowed",
                                      HTTP_405_METHOD_NOT_ALLOWED))

\* get_http_response, lines 140-146.
get_http_response_parse(req) ==
    LET data == get_http_response_data(req)
    IN  IF data.exc # "" THEN data
        ELSE LET r == parse_request_data(data.val)
             IN  IF r.exc = "JSONDecodeError" THEN Return(MalformedBody) ELSE r

\* The parser ran: a query string, a JSON body or a form was decoded.
AsgiParses(req) ==
    \/ req.method = "GET" /\ req.query_params # EmptyObj
    \/ /\ req.method = "POST"
       /\ \/ Contains(req.content_type, "application/json")
          \/ StartsWith(req.content_type, "multipart/form-data")

\* Mutant: the configuration flag is ignored.
allowed_operation_types_NoGate(method, allow_queries_via_get) == from_http(method)

\* get_http_response, lines 148-151: the allowed operation types.
allowed_operation_types(method, allow_queries_via_get) ==
    LET from_method == from_http(method)
    IN  IF from_method.exc # "" THEN from_method
        ELSE IF ~allow_queries_via_get /\ method = "GET"
        THEN Ok(from_method.val \ {"QUERY"})
        ELSE from_method

\* Mutant: every exception of the engine is turned into a response.
get_http_response_except_CatchAll(r, method) ==
    CASE r.exc = "InvalidOperationTypeError" ->
            Return(PlainTextResponse(as_http_error_reason(r.reason, method),
                                     HTTP_400_BAD_REQUEST))
      [] r.exc = "MissingQueryError" ->
            Return(PlainTextResponse("No GraphQL query found in the request",
                                     HTTP_400_BAD_REQUEST))
      [] r.exc # "" ->
            Return(PlainTextResponse("Internal Server Error", 500))
      [] OTHER -> r

\* get_http_response, lines 153-171: the engine's typed errors become responses.
get_http_response_except(r, method) ==
    CASE r.exc = "InvalidOperationTypeError" ->
            Return(PlainTextResponse(as_http_error_reason(r.reason, method),
                                     HTTP_400_BAD_REQUEST))
      [] r.exc = "MissingQueryError" ->
            Return(PlainTextResponse("No GraphQL query found in the request",
                                     HTTP_400_BAD_REQUEST))
      [] OTHER -> r

\* Mutant: a result carrying errors is answered with status 400.
json_response_ErrorStatus(result) ==
    Response(encode_json(process_result(result)),
             IF result.errors = <<>> THEN HTTP_200_OK ELSE HTTP_400_BAD_REQUEST,
             "application/json", <<"content-length", "content-type">>)

\* get_http_response, lines 173-179.
json_response(result) ==
    Response(encode_json(process_result(result)), HTTP_200_OK,
             "application/json", <<"content-length", "content-type">>)

\* Mutant: the status of the sub-response replaces only a 200.
merge_sub_response_SuccessOnly(resp, sub_response) ==
    [resp EXCEPT
        !.headers = @ \o sub_response.headers,
        !.status = IF sub_response.status_code # 0 /\ @ = HTTP_200_OK
                   THEN sub_response.status_code ELSE @]

\* handle, lines 64-70: headers and status of the sub-response are merged in.
merge_sub_response(resp, sub_response) ==
    [resp EXCEPT
        !.headers = @ \o sub_response.headers,
        !.status = IF sub_response.status_code # 0
                   THEN sub_response.status_code ELSE @]

\* handle, line 48.
handle_get_root_value(o) ==
    [o EXCEPT !.pc = "get_context", !.calls = Append(@, "get_root_value")]

\* handle, lines 50-54.
handle_get_context(o, ctx_status) ==
    [o EXCEPT !.pc = "parse",
              !.sub_response = context_builder(SubResponse, ctx_status),
              !.calls = Append(@, "get_context")]

\* get_http_response, lines 82-146.
handle_parse(o, req) ==
    LET r == get_http_response_parse(req)
        logged == [o EXCEPT !.calls =
                      IF AsgiParses(req) THEN Append(@, "parse") ELSE @]
    IN  CASE r.exc = "" ->
               [logged EXCEPT !.pc = "execute", !.request_data = r.val]
          [] r.exc = "return" ->
               [logged EXCEPT !.pc = "send", !.response = r.val]
          [] OTHER ->
               [logged EXCEPT !.pc = "done", !.out = Raised(r)]

\* get_http_response, lines 148-171.
handle_execute(o, req) ==
    LET allowed == allowed_operation_types(req.method, cfg.allow_queries_via_get)
    IN  IF allowed.exc # ""
        THEN [o EXCEPT !.pc = "done", !.out = Raised(allowed)]
        ELSE LET r == get_http_response_except(
                          schema_execute(o.request_data.query, allowed.val,
                                         env.engine),
                          req.method)
                 called == [o EXCEPT
                               !.exec = ExecCall(o.request_data, allowed.val),
                               !.calls = Append(@, "execute")]
             IN  CASE r.exc = "" ->
                        [called EXCEPT !.pc = "respond", !.result = r.val]
                   [] r.exc = "return" ->
                        [called EXCEPT !.pc = "send", !.response = r.val]
                   [] OTHER ->
                        [called EXCEPT !.pc = "done", !.out = Raised(r)]

\* get_http_response, lines 173-179.
handle_respond(o) ==
    [o EXCEPT !.pc = "send",
              !.calls = Append(@, "process_result"),
              !.response = json_response(o.result)]

\* handle, lines 64-72.
handle_send(o) ==
    [o EXCEPT !.pc = "done",
              !.out = merge_sub_response(o.response, o.sub_response)]

\* The statement of handle at which the call o stands.
handle_step(o, req, ctx_status) ==
    CASE o.pc = "start" -> handle_get_root_value(o)
      [] o.pc = "get_context" -> handle_get_context(o, ctx_status)
      [] o.pc = "parse" -> handle_parse(o, req)
      [] o.pc = "execute" -> handle_execute(o, req)
      [] o.pc = "respond" -> handle_respond(o)
      [] o.pc = "send" -> handle_send(o)
      [] OTHER -> o

\* handle, line 48.
AsgiGetRootValue ==
    /\ asgi.pc = "start"
    /\ asgi' = handle_get_root_value(asgi)
    /\ UNCHANGED <<request, cfg, env, view, peer, client>>

\* handle, lines 50-54.
AsgiGetContext ==
    /\ asgi.pc = "get_context"
    /\ asgi' = handle_get_context(asgi, env.ctx_status)
    /\ UNCHANGED <<request, cfg, env, view, peer, client>>

\* get_http_response, lines 82-146.
AsgiParse ==
    /\ asgi.pc = "parse"
    /\ asgi' = handle_parse(asgi, request)
    /\ UNCHANGED <<request, cfg, env, view, peer, client>>

\* Mutant: the call of the engine is repeated once when it raised.
AsgiExecute_Retry ==
    /\ asgi.pc = "execute"
    /\ LET next == handle_execute(asgi, request)
       IN  asgi' = IF next.out.kind = "raised" /\ ~asgi.exec.called
                   THEN [next EXCEPT !.pc = "execute", !.out = Pending]
                   ELSE next
    /\ UNCHANGED <<request, cfg, env, view, peer, client>>

\* get_http_response, lines 148-171.
AsgiExecute ==
    /\ asgi.pc = "execute"
    /\ asgi' = handle_execute(asgi, request)
    /\ UNCHANGED <<request, cfg, env, view, peer, client>>

\* get_http_response, lines 173-179.
AsgiRespond ==
    /\ asgi.pc = "respond"
    /\ asgi' = handle_respond(asgi)
    /\ UNCHANGED <<request, cfg, env, view, peer, client>>

\* Mutant: the sub-response is kept on the handler, where the context
\* builder of another request being handled has written to it.
AsgiSend_SharedSubResponse ==
    /\ asgi.pc = "send"
    /\ asgi' = handle_send(
                   [asgi EXCEPT !.sub_response =
                       IF peer.o.pc \notin {"start", "get_context"}
                       THEN peer.o.sub_response ELSE @])
    /\ UNCHANGED <<request, cfg, env, view, peer, client>>

\* handle, lines 64-72.
AsgiSend ==
    /\ asgi.pc = "send"
    /\ asgi' = handle_send(asgi)
    /\ UNCHANGED <<request, cfg, env, view, peer, client>>

\* The same statements for the second request in the handler.
\* handle, line 48.
PeerGetRootValue ==
    /\ peer.o.pc = "start"
    /\ peer' = [peer EXCEPT !.o = handle_get_root_value(@)]
    /\ UNCHANGED <<request, cfg, env, view, asgi, client>>

\* handle, lines 50-54.
PeerGetContext ==
    /\ peer.o.pc = "get_context"
    /\ peer' = [peer EXCEPT !.o = handle_get_context(@, peer.ctx_status)]
    /\ UNCHANGED <<request, cfg, env, view, asgi, client>>

\* get_http_response, lines 82-146.
PeerParse ==
    /\ peer.o.pc = "parse"
    /\ peer' = [peer EXCEPT !.o = handle_parse(@, peer.request)]
    /\ UNCHANGED <<request, cfg, env, view, asgi, client>>

\* get_http_response, lines 148-171.
PeerExecute ==
    /\ peer.o.pc = "execute"
    /\ peer' = [peer EXCEPT !.o = handle_execute(@, peer.request)]
    /\ UNCHANGED <<request, cfg, env, view, asgi, client>>

\* get_http_response, lines 173-179.
PeerRespond ==
    /\ peer.o.pc = "respond"
    /\ peer' = [peer EXCEPT !.o = handle_respond(@)]
    /\ UNCHANGED <<request, cfg, env, view, asgi, client>>

\* handle, lines 64-72.
PeerSend ==
    /\ peer.o.pc = "send"
    /\ peer' = [peer EXCEPT !.o = handle_send(@)]
    /\ UNCHANGED <<request, cfg, env, view, asgi, client>>

-----------------------------------------------------------------------------
(* HttpClient (tests/http/clients/base.py): the body or query parameters  *)
(* the test client builds for a request.                                  *)

\* Member order of the mappings the client handles (a dict keeps the order
\* its keys were inserted in).  None of them has a numeric key, and none of
\* the variables holds an empty container.
ClientKeyOrder ==
    <<"query", "variables", "operations", "map",
      "a", "b", "f", "g", "input", "input.a", "files">>

\* isinstance(value, list) and isinstance(value, dict)
IsList(tree) ==
    /\ <<>> \notin DOMAIN tree
    /\ \A q \in DOMAIN tree : \E i \in DOMAIN IndexOrder : q[1] = IndexOrder[i]
IsDict(tree) == <<>> \notin DOMAIN tree /\ ~IsList(tree)

\* list(d.keys()) and the indices of a list
Keys(tree) == SelectSeq(ClientKeyOrder, LAMBDA k : HasKey(tree, k))
Indices(tree) == SelectSeq(IndexOrder, LAMBDA k : HasKey(tree, k))

\* "if value:" on a mapping or None
Truthy(tree) == tree # None /\ tree # EmptyObj

\* json.dumps of a scalar: null, a number and an empty container are
\* written as they are, a string between double quotes (the strings of the
\* model hold nothing to escape).
DumpScalar(leaf) ==
    IF leaf \in {"null", "1", "{}"} THEN leaf ELSE "\"" \o leaf \o "\""

RECURSIVE JsonDumps(_), DumpMembers(_, _, _)

\* The members of an object ("key": value) or the items of an array,
\* separated by ", ".
DumpMembers(tree, keys, list) ==
    IF keys = <<>> THEN ""
    ELSE LET k == Head(keys)
             item == IF list THEN JsonDumps(Get(tree, k))
                     ELSE "\"" \o k \o "\": " \o JsonDumps(Get(tree, k))
         IN  IF Len(keys) = 1 THEN item
             ELSE item \o ", " \o DumpMembers(tree, Tail(keys), list)

\* json.dumps with its default separators.
JsonDumps(tree) ==
    IF <<>> \in DOMAIN tree THEN DumpScalar(tree[<<>>])
    ELSE IF IsList(tree) THEN "[" \o DumpMembers(tree, Indices(tree), TRUE) \o "]"
    ELSE "{" \o DumpMembers(tree, Keys(tree), FALSE) \o "}"

\* files_map.setdefault(k, []) and files_map[k].append(path)
ListAppend(files_map, k, path) ==
    LET n == Cardinality({q \in DOMAIN files_map : Len(q) >= 1 /\ q[1] = k})
        item == (<<IndexOrder[n + 1]>> :> path)
    IN  Graft(files_map, k, IF n = 0 THEN item ELSE Get(files_map, k) @@ item)

RECURSIVE MapList(_, _, _, _)

\* _build_multipart_file_map, lines 166-171: each item of a list of files
\* takes the first file not yet taken (_kwargs); none left is an IndexError.
MapList(indices, kwargs, key, files_map) ==
    IF indices = <<>> THEN Ok(files_map)
    ELSE IF kwargs = <<>> THEN Raise("IndexError")
    ELSE MapList(Tail(indices), Tail(kwargs), key,
                 ListAppend(files_map, Head(kwargs),
                            "variables." \o key \o "." \o Head(indices)))

RECURSIVE FileMapLoop(_, _, _, _)

\* _build_multipart_file_map, lines 156-173: the loop over variables.items().
FileMapLoop(keys, variables, files, files_map) ==
    IF keys = <<>> THEN Ok(files_map)
    ELSE LET key0 == Head(keys)
             values0 == Get(variables, key0)
             isdict == IsDict(values0)
             folder_key == Head(Keys(values0))
             key == IF isdict THEN key0 \o "." \o folder_key ELSE key0
             values == IF isdict THEN Get(values0, folder_key) ELSE values0
             mapped ==
                 IF IsList(values)
                 THEN MapList(Indices(values), Keys(files), key, files_map)
                 ELSE Ok(Graft(files_map, key, (<<"0">> :> ("variables." \o key))))
         IN  IF mapped.exc # "" THEN mapped
             ELSE FileMapLoop(Tail(keys), variables, files, mapped.val)

build_multipart_file_map(variables, files) ==
    FileMapLoop(Keys(variables), variables, files, EmptyObj)

\* _build_body: None without a query; {"query", "variables"}; with files
\* the multipart fields "operations" and "map"; for a GET `variables` is
\* replaced by its JSON text.
build_body(query, variables, files, method) ==
    IF query = None
    THEN IF files # None \/ variables # None THEN Raise("AssertionError")
         ELSE Ok(None)
    ELSE LET body == IF Truthy(variables)
                     THEN Graft(Graft(EmptyObj, "query", query), "variables", variables)
                     ELSE Graft(EmptyObj, "query", query)
             file_map == build_multipart_file_map(variables, files)
             fields ==
                 IF ~Truthy(files) THEN Ok(body)
                 ELSE IF variables = None THEN Raise("AssertionError")
                 ELSE IF file_map.exc # "" THEN file_map
                 ELSE Ok(Dict1("operations", JsonDumps(body))
                         @@ Dict1("map", JsonDumps(file_map.val)))
         IN  IF fields.exc = "" /\ method = "get" /\ Truthy(variables)
             THEN Ok(Graft(fields.val, "variables", Scalar(JsonDumps(variables))))
             ELSE fields

\* The variables the client is given: none, an empty mapping, scalars, a
\* folder and a list of files.
V_A == (<<"a">> :> "1")
V_AB == (<<"a">> :> "1") @@ (<<"b">> :> "x")
V_FG == (<<"f">> :> "null") @@ (<<"g">> :> "null")
V_INPUT == (<<"input", "a">> :> "1")
V_FILES == (<<"files", "0">> :> "null") @@ (<<"files", "1">> :> "null")
ClientVariables == {None, EmptyObj, V_A, V_AB, V_FG, V_INPUT, V_FILES}
ClientQueries == {None, Scalar(Q_QUERY), Scalar(Q_MUTATION), Scalar(Q_UPLOAD)}
ClientFiles == {None, FilesOf({"f"}), FilesOf({"f", "g"})}
ClientMethods == {"get", "post"}

\* One call of the client: its arguments, the body built, and for a GET
\* the data parse_query_params makes of it.
Client(query, variables, files, method) ==
    [pc |-> "build", query |-> query, variables |-> variables, files |-> files,
     method |-> method, body |-> Ok(None), data |-> Ok(None)]
Clients ==
    { Client(q, v, f, m) :
          q \in ClientQueries, v \in ClientVariables,
          f \in ClientFiles, m \in ClientMethods }

\* No client call.
NoClient == [Client(None, None, None, "post") EXCEPT !.pc = "idle"]

\* _graphql_request calls _build_body; a GET goes on with the body as its
\* query parameters.
ClientBuildBody ==
    /\ client.pc = "build"
    /\ \E body \in {build_body(client.query, client.variables,
                               client.files, client.method)} :
          client' = [client EXCEPT
                        !.body = body,
                        !.pc = IF body.exc = "" /\ body.val # None
                                   /\ client.method = "get"
                               THEN "sent" ELSE "done"]
    /\ UNCHANGED <<request, cfg, env, view, asgi, peer>>

\* parse_http_body, lines 151-153, on the parameters the client sent.
ViewParseQueryParams ==
    /\ client.pc = "sent"
    /\ client' = [client EXCEPT
                     !.data = parse_query_params(client.body.val),
                     !.pc = "done"]
    /\ UNCHANGED <<request, cfg, env, view, asgi, peer>>

-----------------------------------------------------------------------------

\* The requests two calls of handle are run on at the same time.
ConcurrentRequests ==
    { Req("GET", CT_NONE, P_QUERY, "", EmptyObj, EmptyObj, A_NONE),
      Req("GET", CT_NONE, EmptyObj, "", EmptyObj, EmptyObj, A_HTML),
      Req("POST", CT_JSON, EmptyObj, T_BODY_QUERY, EmptyObj, EmptyObj, A_NONE),
      Req("POST", CT_JSON, EmptyObj, T_BODY_FULL, EmptyObj, EmptyObj, A_NONE),
      Req("POST", CT_JSON, EmptyObj, T_MALFORMED, EmptyObj, EmptyObj, A_NONE),
      Req("POST", CT_FORM, EmptyObj, "", F_GOOD, FilesOf({"0"}), A_NONE),
      Req("POST", CT_TEXT, EmptyObj, "", EmptyObj, EmptyObj, A_NONE),
      Req("PUT", CT_NONE, EmptyObj, "", EmptyObj, EmptyObj, A_NONE) }

\* A second call of handle: its request, the status its context builder
\* sets (0: none), and the call itself.
Peer(req, ctx_status) == [request |-> req, ctx_status |-> ctx_status, o |-> Start]

\* No second request: the call is never started.
NoPeer == Peer(Req("GET", CT_NONE, P_QUERY, "", EmptyObj, EmptyObj, A_NONE), 0)

Init ==
    /\ request \in Requests
    /\ cfg \in Configs
    /\ env \in Envs
    /\ view = Start
    /\ asgi = Start
    /\ peer = NoPeer
    /\ client = NoClient

Next ==
    \/ ViewAdmit
    \/ ViewParse
    \/ ViewGetContext
    \/ ViewGetRootValue
    \/ ViewExecute
    \/ ViewRespond
    \/ AsgiGetRootValue
    \/ AsgiGetContext
    \/ AsgiParse
    \/ AsgiExecute
    \/ AsgiRespond
    \/ AsgiSend

Spec == Init /\ [][Next]_vars

\* One HTTPHandler handling two requests at the same time: the two calls of
\* handle interleave at their awaits.
ConcurrentInit ==
    /\ request \in ConcurrentRequests
    /\ cfg \in Configs
    /\ env \in Envs
    /\ view = Start
    /\ asgi = Start
    /\ peer \in {Peer(req, ctx_status) :
                     req \in ConcurrentRequests, ctx_status \in {0, 403}}
    /\ client = NoClient

ConcurrentNext ==
    \/ AsgiGetRootValue
    \/ AsgiGetContext
    \/ AsgiParse
    \/ AsgiExecute
    \/ AsgiRespond
    \/ AsgiSend
    \/ PeerGetRootValue
    \/ PeerGetContext
    \/ PeerParse
    \/ PeerExecute
    \/ PeerRespond
    \/ PeerSend

ConcurrentSpec == ConcurrentInit /\ [][ConcurrentNext]_vars

\* The steps of each orchestrator.
ViewStep ==
    \/ ViewAdmit \/ ViewParse \/ ViewGetContext
    \/ ViewGetRootValue \/ ViewExecute \/ ViewRespond
AsgiStep ==
    \/ AsgiGetRootValue \/ AsgiGetContext \/ AsgiParse
    \/ AsgiExecute \/ AsgiRespond \/ AsgiSend

\* Each orchestrator is straight-line code: when the collaborators it calls
\* return, its next statement runs.
\* The fair specification runs the requests that carry no upload map.
FairRequests == {r \in Requests : ~HasKey(r.form, "map")}
FairInit == Init /\ request \in FairRequests
FairSpec ==
    FairInit /\ [][Next]_vars /\ WF_vars(ViewStep) /\ WF_vars(AsgiStep)

\* The test client alone: every call of _build_body of the model, and
\* parse_query_params on what a GET sends.
RoundTripInit ==
    /\ request = NoPeer.request
    /\ cfg = [allow_queries_via_get |-> TRUE, graphiql |-> FALSE]
    /\ env = [engine |-> "data", ctx_status |-> 0]
    /\ view = Start
    /\ asgi = Start
    /\ peer = NoPeer
    /\ client \in Clients
RoundTripNext ==
    \/ ClientBuildBody
    \/ ViewParseQueryParams
RoundTripSpec == RoundTripInit /\ [][RoundTripNext]_vars

-----------------------------------------------------------------------------
(* Observations shared by the properties *)

\* The protocol-level answer of an orchestrator: the response built for the
\* request (before the sub-response is merged in) or the exception raised.
Answer(o) == IF o.response.kind = "response" THEN o.response ELSE o.out
Answered(o) == Answer(o).kind # "pending"

Called(o, name) == \E i \in DOMAIN o.calls : o.calls[i] = name

NoQueryFound == "No GraphQL query found in the request"

InvalidOperationReasons ==
    {as_http_error_reason(k, request.method) : k \in {"QUERY", "MUTATION", "SUBSCRIPTION"}}

-----------------------------------------------------------------------------
(* C1 *)

GetWithQueriesDisabled == ~cfg.allow_queries_via_get /\ request.method = "GET"

\* C1 as stated: with allow_queries_via_get false, every GET request that
\* reaches the execution step hands the engine an empty set of allowed
\* operation types and ends in the 400 invalid-operation-type error.
C1_AlwaysInvalidOperationType ==
    GetWithQueriesDisabled =>
        \A o \in {view, asgi} :
            o.exec.called =>
                /\ o.exec.allowed = {}
                /\ Answered(o)
                /\ Answer(o).status = HTTP_400_BAD_REQUEST
                /\ Answer(o).body \in InvalidOperationReasons

\* C1 (amended): with allow_queries_via_get false, every GET request that
\* reaches the execution step hands the engine an empty set of allowed
\* operation types and ends in a 400 error, never in a 200 response: the
\* invalid-operation-type error naming the kind of its query when it carries
\* a query, the no-query-found error when it carries none.
C1_GetNeverExecutes ==
    GetWithQueriesDisabled =>
        \A o \in {view, asgi} :
            o.exec.called =>
                /\ o.exec.allowed = {}
                /\ Answered(o)
                /\ Answer(o).status = HTTP_400_BAD_REQUEST
                /\ Answer(o).body =
                      IF o.exec.query = None THEN NoQueryFound
                      ELSE as_http_error_reason(OperationKind(o.exec.query[<<>>]), "GET")
                /\ ~Called(o, "process_result")

C1_Witness ==
    /\ GetWithQueriesDisabled
    /\ view.exec.called /\ asgi.exec.called
    /\ asgi.exec.query = Scalar(Q_QUERY)
    /\ asgi.pc = "done"
    /\ asgi.response.body = "queries are not allowed when using GET"

-----------------------------------------------------------------------------
(* C2 *)

\* C2: the allowed operation types handed to the engine never contain
\* SUBSCRIPTION, contain MUTATION only for POST, are {QUERY, MUTATION} for
\* POST and a subset of {QUERY} for GET, whatever allow_queries_via_get is.
C2_AllowedTypesByMethod ==
    \A o \in {view, asgi} :
        o.exec.called =>
            /\ "SUBSCRIPTION" \notin o.exec.allowed
            /\ "MUTATION" \in o.exec.allowed => request.method = "POST"
            /\ request.method = "POST" => o.exec.allowed = {"QUERY", "MUTATION"}
            /\ request.method = "GET" => o.exec.allowed \subseteq {"QUERY"}

C2_Witness ==
    /\ request.method = "POST"
    /\ ~cfg.allow_queries_via_get
    /\ view.exec.called /\ asgi.exec.called
    /\ view.exec.allowed = {"QUERY", "MUTATION"}

-----------------------------------------------------------------------------
(* C3 *)

NeitherGetNorPost == Lower(request.method) \notin {"get", "post"}

NeverParsedNorExecuted(o) ==
    /\ ~o.exec.called
    /\ ~Called(o, "parse")
    /\ ~Called(o, "execute")

-----------------------------------------------------------------------------
(* C4 *)

UnsupportedPost ==
    /\ request.method = "POST"
    /\ ~Contains(request.content_type, "application/json")
    /\ ~StartsWith(request.content_type, "multipart/form-data")

\* C4: a POST whose content type neither contains application/json nor
\* starts with multipart/form-data (a POST without content type included) is
\* answered with status 415 and body "Unsupported Media Type" by both
\* orchestrators, and the engine is never called for it.
C4_UnsupportedMediaType ==
    UnsupportedPost =>
        \A o \in {view, asgi} :
            /\ ~o.exec.called
            /\ Answered(o) =>
                  /\ Answer(o).status = HTTP_415_UNSUPPORTED_MEDIA_TYPE
                  /\ Answer(o).body = "Unsupported Media Type"

-----------------------------------------------------------------------------
(* C5 *)

BareGetWithoutConsole ==
    /\ request.method = "GET"
    /\ request.query_params = EmptyObj
    /\ ~cfg.graphiql

\* C5: a GET without query parameters for which the console is not rendered
\* is answered with status 404 and an empty body by both orchestrators; the
\* parser and the engine are never invoked for it and it never yields a 400.
C5_BareGetNotFound ==
    BareGetWithoutConsole =>
        \A o \in {view, asgi} :
            /\ NeverParsedNorExecuted(o)
            /\ Answered(o) =>
                  /\ Answer(o).status = HTTP_404_NOT_FOUND
                  /\ Answer(o).body = ""

-----------------------------------------------------------------------------
(* C6 *)

GetWithMalformedVariables ==
    /\ request.method = "GET"
    /\ HasKey(request.query_params, "variables")
    /\ JsonLoads(request.query_params[<<"variables">>]).exc = "JSONDecodeError"

\* C6: a GET with a query string whose variables parameter is not valid JSON
\* always ends in the 400 error "Unable to parse request body as JSON" in
\* both orchestrators, and the engine is never called for it.
C6_MalformedVariables ==
    GetWithMalformedVariables =>
        \A o \in {view, asgi} :
            /\ ~o.exec.called
            /\ Answered(o) =>
                  /\ Answer(o).status = HTTP_400_BAD_REQUEST
                  /\ Answer(o).body = "Unable to parse request body as JSON"

-----------------------------------------------------------------------------
(* C7 *)

\* A multipart POST with well-formed operations and map fields whose map
\* references a key that names no uploaded file part.
MapReferencesMissingFile ==
    /\ request.method = "POST"
    /\ StartsWith(request.content_type, "multipart/form-data")
    /\ JsonLoads(FormGet(request.form, "operations", "{}")).exc = ""
    /\ LET files_map == JsonLoads(FormGet(request.form, "map", "{}"))
       IN  /\ files_map.exc = ""
           /\ \E k \in {"0", "1", "2", "3", "operations", "map"} :
                 HasKey(files_map.val, k) /\ ~HasKey(request.files, k)

\* C7: a multipart POST whose map references a file key absent from the
\* uploaded file parts always ends in the 400 error "File(s) missing in form
\* data" in both orchestrators, and the engine is never called for it.
C7_MissingUploads ==
    MapReferencesMissingFile =>
        \A o \in {view, asgi} :
            /\ ~o.exec.called
            /\ Answered(o) =>
                  /\ Answer(o).status = HTTP_400_BAD_REQUEST
                  /\ Answer(o).body = "File(s) missing in form data"

-----------------------------------------------------------------------------
(* C8 *)

JsonObjectPost ==
    /\ request.method = "POST"
    /\ Contains(request.content_type, "application/json")
    /\ request.data \in {T_BODY_QUERY, T_BODY_FULL, T_BODY_NOQUERY}

\* The fields the JSON bodies of the model carry; null for an absent key.
BodyQuery ==
    CASE request.data = T_BODY_QUERY -> Scalar("{ hello }")
      [] request.data = T_BODY_FULL -> Scalar("mutation { m }")
      [] OTHER -> Scalar("null")
BodyVariables ==
    CASE request.data = T_BODY_FULL -> (<<"a">> :> "1")
      [] OTHER -> Scalar("null")
BodyOperationName ==
    CASE request.data = T_BODY_QUERY -> Scalar("null")
      [] OTHER -> Scalar("Op")

\* C8: for a POST with content type application/json whose body is a
\* well-formed JSON object, both orchestrators reach the execute call, and
\* the query, variables and operation name handed to the engine are the
\* body's query, variables and operationName, null for an absent key.
C8_JsonBodyRoundTrip ==
    JsonObjectPost =>
        \A o \in {view, asgi} :
            /\ o.pc \in {"respond", "send", "done"} => o.exec.called
            /\ o.exec.called =>
                  /\ o.exec.query = BodyQuery
                  /\ o.exec.variables = BodyVariables
                  /\ o.exec.operation_name = BodyOperationName
                  /\ o.request_data.query = BodyQuery
                  /\ o.request_data.variables = BodyVariables
                  /\ o.request_data.operation_name = BodyOperationName

C8_Witness ==
    /\ JsonObjectPost
    /\ request.data = T_BODY_FULL
    /\ view.exec.called /\ asgi.exec.called
    /\ view.pc = "done" /\ asgi.pc = "done"
    /\ asgi.exec.variables = (<<"a">> :> "1")
    /\ view.exec.operation_name = Scalar("Op")

-----------------------------------------------------------------------------
(* C9 *)

GetWithQueryString == request.method = "GET" /\ request.query_params # EmptyObj

Parsed(o) == o.pc \in {"get_context", "get_root_value", "execute", "respond"}
             \/ o.exec.called

\* C9: for a GET with a non-empty query string, the query, operationName and
\* variables of the resulting GraphQLRequestData are those of the query
\* parameters, whatever the content type and the body of the request are.
C9_GetReadsQueryParams ==
    (GetWithQueryString /\ ~GetWithMalformedVariables) =>
        \A o \in {view, asgi} :
            (Called(o, "parse") /\ Parsed(o)) =>
                /\ o.request_data.query = Get(request.query_params, "query")
                /\ o.request_data.operation_name
                      = Get(request.query_params, "operationName")
                /\ o.request_data.variables =
                      IF HasKey(request.query_params, "variables")
                      THEN JsonLoads(request.query_params[<<"variables">>]).val
                      ELSE None

-----------------------------------------------------------------------------
(* C10 *)

\* The engine returned a result for the call the orchestrator made.
EngineReturned(o) ==
    /\ o.exec.called
    /\ schema_execute(o.exec.query, o.exec.allowed, env.engine).exc = ""

\* C10: whenever the engine returns a result, the response built from it has
\* status 200 and content type application/json, whether or not the result
\* carries GraphQL errors.
C10_ResultIsAlways200 ==
    \A o \in {view, asgi} :
        (EngineReturned(o) /\ Called(o, "process_result")) =>
            /\ o.response.kind = "response"
            /\ o.response.status = HTTP_200_OK
            /\ o.response.media_type = "application/json"

C10_Witness ==
    /\ env.engine = "errors"
    /\ EngineReturned(asgi) /\ EngineReturned(view)
    /\ asgi.pc = "done" /\ view.pc = "done"
    /\ asgi.result.errors # <<>>
    /\ HasKey(process_result(asgi.result), "errors")
    /\ asgi.response.status = HTTP_200_OK
    /\ view.response.status = HTTP_200_OK

-----------------------------------------------------------------------------
(* C11 *)

\* The console short-circuit fires: console enabled, GET, no query
\* parameters, Accept advertising text/html or */*.
ConsoleShortCircuit ==
    /\ cfg.graphiql
    /\ request.method = "GET"
    /\ request.query_params = EmptyObj
    /\ \E supported_header \in {"text/html", "*/*"} :
           Contains(request.accept, supported_header)

\* C11: when the console short-circuit fires, the parser, get_context,
\* get_root_value and the engine are never invoked, in both orchestrators,
\* and the response is the static console page with status 200.
C11_ConsoleBypassesAll ==
    ConsoleShortCircuit =>
        \A o \in {view, asgi} :
            /\ ~Called(o, "parse")
            /\ ~Called(o, "get_context")
            /\ ~Called(o, "get_root_value")
            /\ ~o.exec.called
            /\ Answered(o) =>
                  /\ Answer(o).status = HTTP_200_OK
                  /\ Answer(o).body = GRAPHIQL_HTML
            /\ o.pc = "done" =>
                  /\ o.out.kind = "response"
                  /\ o.out.status = HTTP_200_OK
                  /\ o.out.body = GRAPHIQL_HTML

-----------------------------------------------------------------------------
(* C12 *)

\* The statuses of the protocol responses of HTTPHandler.get_http_response.
ProtocolStatuses ==
    {HTTP_200_OK, HTTP_400_BAD_REQUEST, HTTP_404_NOT_FOUND,
     HTTP_405_METHOD_NOT_ALLOWED, HTTP_415_UNSUPPORTED_MEDIA_TYPE}

\* C12: the status of the response HTTPHandler.handle finally sends is the
\* status the context phase set on the sub-response when it set one, and the
\* status of the protocol response otherwise, for every protocol response
\* (200, 400, 404, 405, 415).
C12_SubResponseStatusWins ==
    (asgi.pc = "done" /\ asgi.out.kind = "response") =>
        /\ asgi.response.status \in ProtocolStatuses
        /\ asgi.sub_response.status_code = env.ctx_status
        /\ asgi.out.status =
              IF env.ctx_status # 0 THEN env.ctx_status ELSE asgi.response.status
        /\ asgi.out.body = asgi.response.body

C12_Witness ==
    /\ asgi.pc = "done"
    /\ env.ctx_status # 0
    /\ asgi.response.status = HTTP_404_NOT_FOUND
    /\ asgi.out.kind = "response"
    /\ asgi.out.status = env.ctx_status

-----------------------------------------------------------------------------
(* C13 *)

\* C13: in the header list of the response HTTPHandler.handle finally sends,
\* the headers set on the sub-response during context construction come
\* first and the protocol response's own headers come after them.
C13_ContextHeadersFirst ==
    (asgi.pc = "done" /\ asgi.out.kind = "response") =>
        asgi.out.headers = asgi.sub_response.headers \o asgi.response.headers

-----------------------------------------------------------------------------
(* C14 *)

\* The invocations of parser, get_context, get_root_value and engine, in order.
Steps(o) ==
    SelectSeq(o.calls,
              LAMBDA c : c \in {"parse", "get_context", "get_root_value", "execute"})

\* C14: for every request and configuration the two orchestrators invoke
\* parser, get_context, get_root_value and the engine in the same order and
\* end in the same outcome: the same status and the same body or reason.
C14_IdenticalOrchestrators ==
    (view.pc = "done" /\ asgi.pc = "done") =>
        /\ Steps(view) = Steps(asgi)
        /\ Answer(view).status = Answer(asgi).status
        /\ Answer(view).body = Answer(asgi).body

-----------------------------------------------------------------------------
(* C15 *)

\* The file keys the maps of the model reference.
ReferencedFileKeys(map_text) ==
    CASE map_text = T_MAP_0 -> {"0"}
      [] map_text = T_MAP_0_TWICE -> {"0"}
      [] map_text = T_MAP_01 -> {"0", "1"}
      [] OTHER -> {}

\* A multipart POST with valid operations and map fields, every referenced
\* file part present.
WellFormedUpload ==
    /\ request.method = "POST"
    /\ StartsWith(request.content_type, "multipart/form-data")
    /\ HasKey(request.form, "operations")
    /\ request.form[<<"operations">>] = T_OPS
    /\ FormGet(request.form, "map", "{}") \in {T_MAP_0, T_MAP_0_TWICE, T_MAP_01, "{}"}
    /\ \A k \in ReferencedFileKeys(FormGet(request.form, "map", "{}")) :
           HasKey(request.files, k)

\* The variables of the operations of the model once the map is applied:
\* the file object of the path's key at every declared path, null elsewhere.
UploadedVariables ==
    LET map_text == FormGet(request.form, "map", "{}")
    IN  CASE map_text = T_MAP_0 ->
                (<<"f">> :> request.files[<<"0">>]) @@ (<<"g">> :> "null")
          [] map_text = T_MAP_0_TWICE ->
                (<<"f">> :> request.files[<<"0">>]) @@ (<<"g">> :> request.files[<<"0">>])
          [] map_text = T_MAP_01 ->
                (<<"f">> :> request.files[<<"0">>]) @@ (<<"g">> :> request.files[<<"1">>])
          [] OTHER -> (<<"f">> :> "null") @@ (<<"g">> :> "null")

\* C15: for every well-formed multipart POST both orchestrators reach the
\* execute call, and the variables handed to the engine hold, at every path
\* the map declares, the uploaded file object of that path's file key; a key
\* declared for several paths puts the same file object at each of them.
C15_UploadsResolved ==
    WellFormedUpload =>
        \A o \in {view, asgi} :
            /\ o.pc \in {"respond", "send", "done"} => o.exec.called
            /\ o.exec.called =>
                  /\ o.exec.query = Scalar(Q_UPLOAD)
                  /\ o.exec.variables = UploadedVariables

C15_Witness ==
    /\ WellFormedUpload
    /\ FormGet(request.form, "map", "{}") = T_MAP_0_TWICE
    /\ view.pc = "done" /\ asgi.pc = "done"
    /\ view.exec.called /\ asgi.exec.called
    /\ view.exec.variables[<<"f">>] = "FILE_0"
    /\ view.exec.variables[<<"g">>] = "FILE_0"
    /\ asgi.exec.variables[<<"g">>] = "FILE_0"

-----------------------------------------------------------------------------
(* C16 *)

\* The request was turned down before the execution step: 405, 415, 404 or
\* a 400 parse error.
RejectedBeforeExecution(o) ==
    /\ Answered(o)
    /\ ~o.exec.called
    /\ \/ Answer(o).status \in {HTTP_405_METHOD_NOT_ALLOWED,
                                HTTP_415_UNSUPPORTED_MEDIA_TYPE,
                                HTTP_404_NOT_FOUND}
       \/ /\ Answer(o).status = HTTP_400_BAD_REQUEST
          /\ Answer(o).body \in {"Unable to parse request body as JSON",
                                 "File(s) missing in form data"}

\* C16: get_context and get_root_value are invoked only after the request
\* was admitted (GET or POST) and successfully parsed; for a request that
\* ends in 405, 415, 404 or a 400 parse error neither is ever invoked, in
\* both orchestrators.
C16_CollaboratorsAfterParse ==
    \A o \in {view, asgi} :
        /\ RejectedBeforeExecution(o) =>
              /\ ~Called(o, "get_context")
              /\ ~Called(o, "get_root_value")
        /\ (Called(o, "get_context") \/ Called(o, "get_root_value")) =>
              /\ Lower(request.method) \in {"get", "post"}
              /\ ~RejectedBeforeExecution(o)

-----------------------------------------------------------------------------
(* C17 *)

\* The parse step of the request fails: a JSON body that is not valid JSON
\* or decodes to something other than an object, a malformed operations or
\* map form field, a malformed variables parameter.
ParseStepFails ==
    \/ /\ request.method = "POST"
       /\ Contains(request.content_type, "application/json")
       /\ request.data \in {T_MALFORMED, T_LIST}
    \/ /\ request.method = "POST"
       /\ ~Contains(request.content_type, "application/json")
       /\ StartsWith(request.content_type, "multipart/form-data")
       /\ \/ JsonLoads(FormGet(request.form, "operations", "{}")).exc # ""
          \/ JsonLoads(FormGet(request.form, "map", "{}")).exc # ""
    \/ GetWithMalformedVariables

\* C17: every parse-step failure is converted to one typed transport error,
\* a 400 or 415 outcome; none escapes the orchestrator as an untyped
\* exception, and the engine is not called for it.
C17_ParseFailuresTyped ==
    ParseStepFails =>
        \A o \in {view, asgi} :
            /\ ~o.exec.called
            /\ o.pc = "done" =>
                  /\ Answer(o).status \in {HTTP_400_BAD_REQUEST,
                                           HTTP_415_UNSUPPORTED_MEDIA_TYPE}
                  /\ \/ Answer(o).kind = "response"
                     \/ Answer(o).exc = "HTTPException"

-----------------------------------------------------------------------------
(* C18 *)

StepNames ==
    {"render_graphiql", "parse", "get_context", "get_root_value", "execute",
     "process_result"}

CountOf(o, name) == Len(SelectSeq(o.calls, LAMBDA c : c = name))

\* Every step ran at most once, the engine included, and an outcome is there
\* only once the orchestrator is through.
OnePass(o) ==
    /\ \A name \in StepNames : CountOf(o, name) <= 1
    /\ o.exec.called <=> CountOf(o, "execute") = 1
    /\ o.out.kind # "pending" <=> o.pc = "done"

\* The request failed: an exception left the orchestrator, or the response
\* built for it is an error response.
Failed(o) ==
    /\ Answered(o)
    /\ \/ Answer(o).kind = "raised"
       \/ Answer(o).status # HTTP_200_OK

\* Between two states: no step runs after a failure, and the outcome, once
\* there, stays.
Terminal(o, next_o) ==
    /\ Failed(o) =>
          /\ next_o.calls = o.calls
          /\ next_o.exec = o.exec
          /\ next_o.response = o.response
    /\ o.out.kind # "pending" => next_o = o

-----------------------------------------------------------------------------
(* C19 *)

\* handle run from its first statement to its last on one request, nothing
\* else going on.
RECURSIVE RunAlone(_, _, _)
RunAlone(o, req, ctx_status) ==
    IF o.pc = "done" THEN o
    ELSE CHOOSE last \in {RunAlone(next, req, ctx_status) :
                             next \in {handle_step(o, req, ctx_status)}} : TRUE

HandledAlone(req, ctx_status) == RunAlone(Start, req, ctx_status)

HasHeader(response, name) == \E i \in DOMAIN response.headers : response.headers[i] = name

\* Nothing the context builder of another request set is on this call: its
\* sub-response carries its own builder's status or none, and a response
\* whose own builder set nothing has a protocol status and no cookie.
NothingLeaked(o, ctx_status) ==
    /\ o.sub_response.status_code \in {0, ctx_status}
    /\ (ctx_status = 0 /\ o.out.kind = "response") =>
          /\ o.out.status \in ProtocolStatuses
          /\ ~HasHeader(o.out, "set-cookie")

\* C19: under every interleaving of two requests in one HTTPHandler, the
\* status, headers and body each request ends with are those it gets when
\* handled alone, and a status or header set on one request's sub-response
\* never appears in the other request's response.
C19_ConcurrentRequestsIsolated ==
    /\ NothingLeaked(asgi, env.ctx_status)
    /\ NothingLeaked(peer.o, peer.ctx_status)
    /\ asgi.pc = "done" => asgi = HandledAlone(request, env.ctx_status)
    /\ peer.o.pc = "done" => peer.o = HandledAlone(peer.request, peer.ctx_status)

C19_Witness ==
    /\ asgi.pc = "done" /\ peer.o.pc = "done"
    /\ env.ctx_status = 0 /\ peer.ctx_status # 0
    /\ request # peer.request
    /\ asgi.out.status = HTTP_200_OK
    /\ peer.o.out.status = peer.ctx_status
    /\ HasHeader(peer.o.out, "set-cookie")
    /\ peer.o.response.status = HTTP_400_BAD_REQUEST

-----------------------------------------------------------------------------
(* C20 *)

\* The exception the engine raised for the call the orchestrator made, ""
\* when it returned.
EngineException(o) == schema_execute(o.exec.query, o.exec.allowed, env.engine).exc

\* C20: an exception of the engine other than InvalidOperationType and
\* MissingQuery leaves the orchestrator unchanged: no response is built and
\* the result-transform hook is not run; those two are the only exceptions
\* of the engine that end in a 400.
C20_OtherEngineExceptionsPropagate ==
    \A o \in {view, asgi} :
        o.exec.called =>
            /\ EngineException(o)
                  \notin {"", "InvalidOperationTypeError", "MissingQueryError"} =>
                  /\ o.pc = "done"
                  /\ o.out.kind = "raised"
                  /\ o.out.exc = EngineException(o)
                  /\ o.response = Pending
                  /\ ~Called(o, "process_result")
            /\ (Answered(o) /\ Answer(o).kind = "response"
                    /\ Answer(o).status # HTTP_200_OK) =>
                  EngineException(o) \in {"InvalidOperationTypeError", "MissingQueryError"}
            /\ (Answered(o) /\ Answer(o).exc = "HTTPException") =>
                  /\ Answer(o).status = HTTP_400_BAD_REQUEST
                  /\ EngineException(o) \in {"InvalidOperationTypeError", "MissingQueryError"}

C20_Witness ==
    /\ env.engine = "raise"
    /\ view.exec.called /\ asgi.exec.called
    /\ EngineException(view) = "RuntimeError"
    /\ view.pc = "done" /\ asgi.pc = "done"
    /\ view.out.exc = "RuntimeError"
    /\ asgi.out.exc = "RuntimeError"
    /\ asgi.out.kind = "raised"

-----------------------------------------------------------------------------
(* C21 *)

\* BaseHTTPView takes the request for a GET: is_request_allowed and
\* parse_http_body compare the lowered method.
AdmittedAsGet == is_request_allowed(request) /\ Lower(request.method) = "get"

\* C21: for every request BaseHTTPView admits as a GET under its
\* case-insensitive comparison, when allow_queries_via_get is false the
\* engine is called with QUERY removed from the allowed operation types
\* (the empty set), exactly as for the method "GET".
C21_GateAgreesWithAdmission ==
    (/\ AdmittedAsGet
     /\ ~cfg.allow_queries_via_get
     /\ view.pc = "done"
     /\ Called(view, "get_root_value")) =>
            /\ view.exec.called
            /\ view.exec.allowed = {}
            /\ view.out.exc = "HTTPException"
            /\ view.out.status = HTTP_400_BAD_REQUEST

-----------------------------------------------------------------------------
(* C22 *)
\* The client is asked for a GET with a query and non-empty variables, and
\* no files.
GetWithVariables ==
    /\ client.method = "get"
    /\ client.query # None
    /\ Truthy(client.variables)
    /\ client.files = None

\* C22: for every query string and every non-empty variables mapping, the
\* GET parameters built by _build_body(method="get") carry `variables` as a
\* JSON-encoded string (a text, and one json.loads accepts) and `query` as
\* given; parse_query_params applied to those parameters yields a
\* `variables` mapping equal to the original and leaves `query` unchanged.
C22_GetVariablesRoundTrip ==
    (GetWithVariables /\ client.pc \in {"sent", "done"}) =>
        /\ client.body.exc = ""
        /\ <<"variables">> \in DOMAIN client.body.val
        /\ JsonLoads(client.body.val[<<"variables">>]).exc = ""
        /\ client.variables = V_A => client.body.val[<<"variables">>] = T_VARS
        /\ Get(client.body.val, "query") = client.query
        /\ client.pc = "done" =>
               /\ client.data.exc = ""
               /\ Get(client.data.val, "variables") = client.variables
               /\ Get(client.data.val, "query") = client.query

\* A GET with a nested variables mapping went through _build_body and
\* parse_query_params: the parameters carried the text, the data holds the
\* mapping.
C22_Witness ==
    /\ GetWithVariables
    /\ client.pc = "done"
    /\ client.query = Scalar(Q_MUTATION)
    /\ client.variables = V_INPUT
    /\ client.body.val = Dict1("query", Q_MUTATION) @@ Dict1("variables", T_VARS_INPUT)
    /\ client.data.val = (<<"query">> :> Q_MUTATION) @@ (<<"variables", "input", "a">> :> "1")

====
